---- MODULE Spec2Model ----
(***************************************************************************)
(* Buffer cache of tdelp/Project6: the three versions of bcache.c kept in  *)
(* the repository (src/unnamed/part_000, src/bcache.c, src/x.c), modelled  *)
(* as threads (callers of bcache_read / bcache_write / bcache_sync and the *)
(* bcache_io_scheduler thread) stepping through the code between its       *)
(* synchronisation points.                                                 *)
(***************************************************************************)
EXTENDS Integers, Sequences, FiniteSets, TLC

\* ------------------------------------------------------------------ bounds
NCallers == 2
MaxCalls == 3
MaxPayload == 2
NBlocks == 2
MaxMemoryBlocks == 1
MaxCallsAll == 2

\* ------------------------------------------------------------- data values
\* A block's content is abstracted to one value: what the device holds at
\* first, a payload a caller wrote, bytes nobody wrote (malloc'ed or zeroed
\* memory), or a mixture of two contents left by unsynchronised copies.
InitialContent == 0
Torn == -1
NoData == -2

Callers == 1..NCallers
Sched == 0
Threads == Callers \cup {Sched}
NoThread == -1
Blocks == 0..(NBlocks - 1)
BlockArgs == 0..NBlocks
Payloads == 1..MaxPayload
Variants == {"part_000", "bcache", "x"}

VARIABLES
    variant,        \* which source file is running
    bc,             \* "NULL" before bcache_create, "bcache" after
    memory_blocks,  \* bc->memory_blocks
    cache,          \* bc->cache: the list, oldest entry first (head = last)
    cache_lock,     \* bc->cache_lock: its holder, or NoThread
    lock_kind,      \* what pthread_mutex_lock does on bc->cache_lock
    disk_lock,      \* bc->disk_lock: its holder, or NoThread
    disk,           \* the device: block number -> content
    nreads,         \* bc->nreads
    nwrites,        \* bc->nwrites
    pc,             \* each thread's position in the code
    arg,            \* each caller's arguments (blocknum, data)
    blk,            \* each thread's local pointer into the list (0 = NULL)
    out,            \* each caller's output buffer
    xfer,           \* each thread's device transfer in flight
    calls,          \* calls the callers may still issue
    lastw,          \* history: payload of the last write stored per block
    dreads,         \* history: disk_read calls issued per block number
    quiet,          \* history: no bcache_write in progress since sync began
    vis,            \* history: the caller's own last completed write
    retR,           \* history: bcache_read calls that returned
    retW            \* history: bcache_write calls that returned

vars == <<variant, bc, memory_blocks, cache, cache_lock, lock_kind, disk_lock,
          disk, nreads, nwrites, pc, arg, blk, out, xfer, calls, lastw, dreads,
          quiet, vis, retR, retW>>

prog == <<variant, bc, memory_blocks, lock_kind>>
hist == <<lastw, dreads, quiet, vis, retR, retW>>

\* ----------------------------------------------------------------- helpers
NoArg == [b |-> 0, p |-> NoData]
NoXfer == [kind |-> "none", snap |-> NoData, raced |-> FALSE]

\* struct block
NewBlock(b, st, d) == [blocknum |-> b, state |-> st, data |-> d, lock |-> NoThread]

\* bc->cache, the first block of the list (0 = NULL); blk->next is blk - 1.
ListHead(c) == Len(c)

\* What an unsynchronised copy of a buffer holding a, overwritten with b
\* while the copy runs, can leave.
Mix(a, b) == IF a = b THEN {a} ELSE {a, b, Torn}

\* The Device Adapter: disk_read / disk_write / disk_nblocks of disk.h.
DiskRead(d, b) == IF b \in DOMAIN d THEN d[b] ELSE NoData
DiskWrite(d, b, v) == IF b \in DOMAIN d THEN [d EXCEPT ![b] = v] ELSE d
disk_nblocks == NBlocks

SleepPcs == {"r_sleep", "s_sleep"}
WokenPc(p) == IF p = "r_sleep" THEN "r_woken" ELSE "s_woken"
Sleepers(e) == {t \in Threads : pc[t] \in SleepPcs /\ blk[t] = e}

\* pthread_cond_broadcast / pthread_cond_signal on entry e's condition, applied
\* to the positions pcv: the threads of W leave pthread_cond_wait.
Wake(pcv, W) == [t \in Threads |-> IF t \in W THEN WokenPc(pcv[t]) ELSE pcv[t]]

\* A memcpy into entry e's buffer races with every device transfer in flight
\* on that buffer.
Raced(xf, e) ==
    [t \in Threads |-> IF xf[t].kind # "none" /\ blk[t] = e
                       THEN [xf[t] EXCEPT !.raced = TRUE] ELSE xf[t]]

InFlightRead(e) == \E t \in Threads : xfer[t].kind = "read" /\ blk[t] = e

\* What memcpy(data, blk->data) of entry e delivers.
CopyOut(e) ==
    IF InFlightRead(e) THEN Mix(cache[e].data, DiskRead(disk, cache[e].blocknum))
    ELSE {cache[e].data}

InWrite(t) == pc[t] \in {"write", "w_lock", "w_ins", "w_count", "w_ret"}

\* -------------------------------------------------------------- the callers
CallRead(t, b) ==
    /\ bc = "bcache" /\ pc[t] = "idle" /\ calls > 0
    /\ pc' = [pc EXCEPT ![t] = "read"]
    /\ arg' = [arg EXCEPT ![t] = [b |-> b, p |-> NoData]]
    /\ calls' = calls - 1
    /\ UNCHANGED <<prog, cache, cache_lock, disk_lock, disk, nreads, nwrites,
                   blk, out, xfer, hist>>

CallWrite(t, b, p) ==
    /\ bc = "bcache" /\ pc[t] = "idle" /\ calls > 0
    /\ pc' = [pc EXCEPT ![t] = "write"]
    /\ arg' = [arg EXCEPT ![t] = [b |-> b, p |-> p]]
    /\ calls' = calls - 1
    /\ quiet' = [u \in Callers |-> FALSE]
    /\ vis' = [u \in Callers |->
                 IF u # t /\ vis[u] # <<>> /\ vis[u][1] = b THEN <<>> ELSE vis[u]]
    /\ UNCHANGED <<prog, cache, cache_lock, disk_lock, disk, nreads, nwrites,
                   blk, out, xfer, lastw, dreads, retR, retW>>

CallSync(t) ==
    /\ bc = "bcache" /\ pc[t] = "idle" /\ calls > 0
    /\ pc' = [pc EXCEPT ![t] = "sync"]
    /\ calls' = calls - 1
    /\ quiet' = [quiet EXCEPT ![t] = \A u \in Callers : ~InWrite(u)]
    /\ UNCHANGED <<prog, cache, cache_lock, disk_lock, disk, nreads, nwrites,
                   arg, blk, out, xfer, lastw, dreads, vis, retR, retW>>

\* The call returns to its caller.
Return(t) ==
    /\ pc[t] \in {"r_ret", "w_ret", "s_ret"}
    /\ pc' = [pc EXCEPT ![t] = "idle"]
    /\ arg' = [arg EXCEPT ![t] = NoArg]
    /\ out' = [out EXCEPT ![t] = NoData]
    /\ blk' = [blk EXCEPT ![t] = 0]
    /\ quiet' = [quiet EXCEPT ![t] = FALSE]
    /\ retR' = IF pc[t] = "r_ret" THEN retR + 1 ELSE retR
    /\ retW' = IF pc[t] = "w_ret" THEN retW + 1 ELSE retW
    /\ vis' = IF pc[t] = "w_ret"
              THEN [vis EXCEPT ![t] =
                      IF \E u \in Callers \ {t} : InWrite(u) /\ arg[u].b = arg[t].b
                      THEN <<>> ELSE <<arg[t].b, arg[t].p>>]
              ELSE vis
    /\ UNCHANGED <<prog, cache, cache_lock, disk_lock, disk, nreads, nwrites,
                   xfer, calls, lastw, dreads>>

\* ====================================================== src/unnamed/part_000
\* The walk of find_or_create_block: the entry for blocknum, 0 when none.
P_Find(c, blocknum) ==
    LET hits == {i \in 1..Len(c) : c[i].blocknum = blocknum}
    IN IF hits = {} THEN 0 ELSE CHOOSE i \in hits : \A j \in hits : j <= i

\* find_or_create_block reusing the head's slot for the new block once the
\* list holds memory_blocks entries.
find_or_create_block_evict(c, blocknum) ==
    IF P_Find(c, blocknum) # 0 THEN c
    ELSE IF Len(c) >= 1 /\ Len(c) >= memory_blocks
    THEN [c EXCEPT ![Len(c)] = NewBlock(blocknum, "FREE", NoData)]
    ELSE Append(c, NewBlock(blocknum, "FREE", NoData))

\* The list find_or_create_block leaves.
find_or_create_block(c, blocknum) ==
    IF P_Find(c, blocknum) # 0 THEN c
    ELSE Append(c, NewBlock(blocknum, "FREE", NoData))

\* __sync_fetch_and_add(&counter, 1)
FetchAndAdd(n) == n + 1

\* bcache_read, lines 99-101
P_read_lookup(t) ==
    /\ variant = "part_000" /\ pc[t] = "read" /\ cache_lock = NoThread
    /\ cache' = find_or_create_block(cache, arg[t].b)
    /\ blk' = [blk EXCEPT ![t] = P_Find(cache', arg[t].b)]
    /\ pc' = [pc EXCEPT ![t] = "r_lock"]
    /\ UNCHANGED <<prog, cache_lock, disk_lock, disk, nreads, nwrites, arg, out,
                   xfer, calls, hist>>

\* The wait loop of bcache_read with blk->lock held, lines 117-122: copy and
\* unlock when the entry is READY, pthread_cond_wait otherwise.
P_read_wait(t, e, c, pcv) ==
    IF c[e].state = "READY"
    THEN /\ \E v \in CopyOut(e) : out' = [out EXCEPT ![t] = v]
         /\ cache' = c
         /\ pc' = [pcv EXCEPT ![t] = "r_count"]
    ELSE /\ out' = out
         /\ cache' = c
         /\ pc' = [pcv EXCEPT ![t] = "r_sleep"]

\* P_read_check with the test of line 104 taking every state but READY as
\* needing a device read.
P_read_check_reread(t) ==
    /\ variant = "part_000" /\ pc[t] = "r_lock"
    /\ cache[blk[t]].lock = NoThread
    /\ IF cache[blk[t]].state # "READY"
       THEN /\ cache' = [cache EXCEPT ![blk[t]].state = "READING"]
            /\ pc' = [pc EXCEPT ![t] = "r_disk"]
            /\ out' = out
       ELSE P_read_wait(t, blk[t], cache, pc)
    /\ UNCHANGED <<prog, cache_lock, disk_lock, disk, nreads, nwrites, arg, blk,
                   xfer, calls, hist>>

\* bcache_read, lines 103-106 and, when the entry is neither FREE nor DIRTY,
\* the wait loop
P_read_check(t) ==
    /\ variant = "part_000" /\ pc[t] = "r_lock"
    /\ cache[blk[t]].lock = NoThread
    /\ IF cache[blk[t]].state \in {"FREE", "DIRTY"}
       THEN /\ cache' = [cache EXCEPT ![blk[t]].state = "READING"]
            /\ pc' = [pc EXCEPT ![t] = "r_disk"]
            /\ out' = out
       ELSE P_read_wait(t, blk[t], cache, pc)
    /\ UNCHANGED <<prog, cache_lock, disk_lock, disk, nreads, nwrites, arg, blk,
                   xfer, calls, hist>>

\* P_read_disk_begin without the pthread_mutex_lock of line 108.
P_read_disk_begin_nolock(t) ==
    /\ variant = "part_000" /\ pc[t] = "r_disk"
    /\ disk_lock' = disk_lock
    /\ xfer' = [xfer EXCEPT ![t] = [kind |-> "read", snap |-> NoData, raced |-> FALSE]]
    /\ dreads' = [dreads EXCEPT ![arg[t].b] = @ + 1]
    /\ pc' = [pc EXCEPT ![t] = "r_xfer"]
    /\ UNCHANGED <<prog, cache, cache_lock, disk, nreads, nwrites, arg, blk, out,
                   calls, lastw, quiet, vis, retR, retW>>

\* bcache_read, line 108 and the start of disk_read
P_read_disk_begin(t) ==
    /\ variant = "part_000" /\ pc[t] = "r_disk" /\ disk_lock = NoThread
    /\ disk_lock' = t
    /\ xfer' = [xfer EXCEPT ![t] = [kind |-> "read", snap |-> NoData, raced |-> FALSE]]
    /\ dreads' = [dreads EXCEPT ![arg[t].b] = @ + 1]
    /\ pc' = [pc EXCEPT ![t] = "r_xfer"]
    /\ UNCHANGED <<prog, cache, cache_lock, disk, nreads, nwrites, arg, blk, out,
                   calls, lastw, quiet, vis, retR, retW>>

\* the end of disk_read and line 110
P_read_disk_end(t) ==
    /\ variant = "part_000" /\ pc[t] = "r_xfer"
    /\ \E v \in (IF xfer[t].raced
                 THEN Mix(DiskRead(disk, arg[t].b), cache[blk[t]].data)
                 ELSE {DiskRead(disk, arg[t].b)}) :
          cache' = [cache EXCEPT ![blk[t]].data = v]
    /\ xfer' = [xfer EXCEPT ![t] = NoXfer]
    /\ disk_lock' = NoThread
    /\ pc' = [pc EXCEPT ![t] = "r_relock"]
    /\ UNCHANGED <<prog, cache_lock, disk, nreads, nwrites, arg, blk, out, calls,
                   hist>>

\* bcache_read, lines 112-114, then the wait loop
P_read_ready(t) ==
    /\ variant = "part_000" /\ pc[t] = "r_relock"
    /\ cache[blk[t]].lock = NoThread
    /\ P_read_wait(t, blk[t], [cache EXCEPT ![blk[t]].state = "READY"],
                   Wake(pc, Sleepers(blk[t])))
    /\ UNCHANGED <<prog, cache_lock, disk_lock, disk, nreads, nwrites, arg, blk,
                   xfer, calls, hist>>

\* pthread_cond_wait returns in bcache_read (line 118): the lock is taken
\* again and the loop condition is evaluated again
P_read_woken(t) ==
    /\ variant = "part_000" /\ pc[t] = "r_woken"
    /\ cache[blk[t]].lock = NoThread
    /\ P_read_wait(t, blk[t], cache, pc)
    /\ UNCHANGED <<prog, cache_lock, disk_lock, disk, nreads, nwrites, arg, blk,
                   xfer, calls, hist>>

\* bcache_read, line 123
P_read_count(t) ==
    /\ variant = "part_000" /\ pc[t] = "r_count"
    /\ nreads' = FetchAndAdd(nreads)
    /\ pc' = [pc EXCEPT ![t] = "r_ret"]
    /\ UNCHANGED <<prog, cache, cache_lock, disk_lock, disk, nwrites, arg, blk,
                   out, xfer, calls, hist>>

\* bcache_write, lines 127-129
P_write_lookup(t) ==
    /\ variant = "part_000" /\ pc[t] = "write" /\ cache_lock = NoThread
    /\ cache' = find_or_create_block(cache, arg[t].b)
    /\ blk' = [blk EXCEPT ![t] = P_Find(cache', arg[t].b)]
    /\ pc' = [pc EXCEPT ![t] = "w_lock"]
    /\ UNCHANGED <<prog, cache_lock, disk_lock, disk, nreads, nwrites, arg, out,
                   xfer, calls, hist>>

\* bcache_write, lines 131-134
P_write_store(t) ==
    /\ variant = "part_000" /\ pc[t] = "w_lock"
    /\ cache[blk[t]].lock = NoThread
    /\ cache' = [cache EXCEPT ![blk[t]].data = arg[t].p, ![blk[t]].state = "DIRTY"]
    /\ xfer' = Raced(xfer, blk[t])
    /\ lastw' = [lastw EXCEPT ![arg[t].b] = arg[t].p]
    /\ pc' = [pc EXCEPT ![t] = "w_count"]
    /\ UNCHANGED <<prog, cache_lock, disk_lock, disk, nreads, nwrites, arg, blk,
                   out, calls, dreads, quiet, vis, retR, retW>>

\* P_write_count adding to the wrong counter.
P_write_count_nreads(t) ==
    /\ variant = "part_000" /\ pc[t] = "w_count"
    /\ nreads' = FetchAndAdd(nreads)
    /\ pc' = [pc EXCEPT ![t] = "w_ret"]
    /\ UNCHANGED <<prog, cache, cache_lock, disk_lock, disk, nwrites, arg, blk,
                   out, xfer, calls, hist>>

\* bcache_write, line 135
P_write_count(t) ==
    /\ variant = "part_000" /\ pc[t] = "w_count"
    /\ nwrites' = FetchAndAdd(nwrites)
    /\ pc' = [pc EXCEPT ![t] = "w_ret"]
    /\ UNCHANGED <<prog, cache, cache_lock, disk_lock, disk, nreads, arg, blk,
                   out, xfer, calls, hist>>

\* bcache_sync, lines 140-141
P_sync_begin(t) ==
    /\ variant = "part_000" /\ pc[t] = "sync" /\ cache_lock = NoThread
    /\ cache_lock' = t
    /\ blk' = [blk EXCEPT ![t] = ListHead(cache)]
    /\ pc' = [pc EXCEPT ![t] = "s_scan"]
    /\ UNCHANGED <<prog, cache, disk_lock, disk, nreads, nwrites, arg, out, xfer,
                   calls, hist>>

\* bcache_sync, one turn of the loop up to the device transfer (lines 142-146,
\* 153-155), or its end (line 157)
P_sync_scan(t) ==
    /\ variant = "part_000" /\ pc[t] = "s_scan"
    /\ IF blk[t] = 0
       THEN /\ cache_lock' = NoThread
            /\ pc' = [pc EXCEPT ![t] = "s_ret"]
            /\ UNCHANGED <<cache, blk>>
       ELSE /\ cache[blk[t]].lock = NoThread
            /\ cache_lock' = cache_lock
            /\ IF cache[blk[t]].state = "DIRTY"
               THEN /\ cache' = [cache EXCEPT ![blk[t]].state = "WRITING"]
                    /\ pc' = [pc EXCEPT ![t] = "s_disk"]
                    /\ blk' = blk
               ELSE /\ cache' = cache
                    /\ pc' = Wake(pc, Sleepers(blk[t]))
                    /\ blk' = [blk EXCEPT ![t] = @ - 1]
    /\ UNCHANGED <<prog, disk_lock, disk, nreads, nwrites, arg, out, xfer, calls,
                   hist>>

\* line 147 (bcache_sync) or 173 (scheduler) and the start of disk_write
P_disk_write_begin(t, from, to) ==
    /\ variant = "part_000" /\ pc[t] = from /\ disk_lock = NoThread
    /\ disk_lock' = t
    /\ xfer' = [xfer EXCEPT ![t] = [kind |-> "write", snap |-> cache[blk[t]].data,
                                    raced |-> FALSE]]
    /\ pc' = [pc EXCEPT ![t] = to]
    /\ UNCHANGED <<prog, cache, cache_lock, disk, nreads, nwrites, arg, blk, out,
                   calls, hist>>

\* the end of disk_write and line 149 (bcache_sync) or 175 (scheduler)
P_disk_write_end(t, from, to) ==
    /\ variant = "part_000" /\ pc[t] = from
    /\ \E v \in (IF xfer[t].raced THEN Mix(xfer[t].snap, cache[blk[t]].data)
                 ELSE {xfer[t].snap}) :
          disk' = DiskWrite(disk, cache[blk[t]].blocknum, v)
    /\ xfer' = [xfer EXCEPT ![t] = NoXfer]
    /\ disk_lock' = NoThread
    /\ pc' = [pc EXCEPT ![t] = to]
    /\ UNCHANGED <<prog, cache, cache_lock, nreads, nwrites, arg, blk, out, calls,
                   hist>>

P_sync_disk_begin(t) == P_disk_write_begin(t, "s_disk", "s_xfer")
P_sync_disk_end(t) == P_disk_write_end(t, "s_xfer", "s_relock")

\* P_sync_ready without the assignment of line 151.
P_sync_ready_stale(t) ==
    /\ variant = "part_000" /\ pc[t] = "s_relock"
    /\ cache[blk[t]].lock = NoThread
    /\ cache' = cache
    /\ pc' = [Wake(pc, Sleepers(blk[t])) EXCEPT ![t] = "s_scan"]
    /\ blk' = [blk EXCEPT ![t] = @ - 1]
    /\ UNCHANGED <<prog, cache_lock, disk_lock, disk, nreads, nwrites, arg, out,
                   xfer, calls, hist>>

\* bcache_sync, lines 150-155
P_sync_ready(t) ==
    /\ variant = "part_000" /\ pc[t] = "s_relock"
    /\ cache[blk[t]].lock = NoThread
    /\ cache' = [cache EXCEPT ![blk[t]].state = "READY"]
    /\ pc' = [Wake(pc, Sleepers(blk[t])) EXCEPT ![t] = "s_scan"]
    /\ blk' = [blk EXCEPT ![t] = @ - 1]
    /\ UNCHANGED <<prog, cache_lock, disk_lock, disk, nreads, nwrites, arg, out,
                   xfer, calls, hist>>

\* bcache_io_scheduler, line 166 and the start of the for loop
P_sched_begin ==
    /\ variant = "part_000" /\ bc = "bcache"
    /\ pc[Sched] = "sch_idle" /\ cache_lock = NoThread
    /\ cache_lock' = Sched
    /\ blk' = [blk EXCEPT ![Sched] = ListHead(cache)]
    /\ pc' = [pc EXCEPT ![Sched] = "sch_scan"]
    /\ UNCHANGED <<prog, cache, disk_lock, disk, nreads, nwrites, arg, out, xfer,
                   calls, hist>>

\* bcache_io_scheduler, one turn of the for loop up to the device transfer
\* (lines 167-171, 182-183), or its end (lines 185-189)
P_sched_scan ==
    /\ variant = "part_000" /\ pc[Sched] = "sch_scan"
    /\ IF blk[Sched] = 0
       THEN /\ cache_lock' = NoThread
            /\ pc' = [pc EXCEPT ![Sched] = "sch_idle"]
            /\ UNCHANGED <<cache, blk>>
       ELSE /\ cache[blk[Sched]].lock = NoThread
            /\ cache_lock' = cache_lock
            /\ IF cache[blk[Sched]].state = "DIRTY"
               THEN /\ cache' = [cache EXCEPT ![blk[Sched]].state = "WRITING"]
                    /\ pc' = [pc EXCEPT ![Sched] = "sch_disk"]
                    /\ blk' = blk
               ELSE /\ cache' = cache
                    /\ pc' = pc
                    /\ blk' = [blk EXCEPT ![Sched] = @ - 1]
    /\ UNCHANGED <<prog, disk_lock, disk, nreads, nwrites, arg, out, xfer, calls,
                   hist>>

P_sched_disk_begin == P_disk_write_begin(Sched, "sch_disk", "sch_xfer")
P_sched_disk_end == P_disk_write_end(Sched, "sch_xfer", "sch_relock")

\* bcache_io_scheduler, lines 177-185: READY, broadcast, break, unlock
P_sched_ready ==
    /\ variant = "part_000" /\ pc[Sched] = "sch_relock"
    /\ cache[blk[Sched]].lock = NoThread
    /\ cache' = [cache EXCEPT ![blk[Sched]].state = "READY"]
    /\ pc' = [Wake(pc, Sleepers(blk[Sched])) EXCEPT ![Sched] = "sch_idle"]
    /\ blk' = [blk EXCEPT ![Sched] = 0]
    /\ cache_lock' = NoThread
    /\ UNCHANGED <<prog, disk_lock, disk, nreads, nwrites, arg, out, xfer, calls,
                   hist>>

\* ============================================================ src/bcache.c
\* find_block (bcache.c lines 74-83, x.c lines 79-88): the first entry from the
\* head with this block number whose state is not BLOCK_FREE, 0 when none.
find_block(c, blocknum) ==
    LET hits == {i \in 1..Len(c) : c[i].blocknum = blocknum /\ c[i].state # "FREE"}
    IN IF hits = {} THEN 0 ELSE CHOOSE i \in hits : \A j \in hits : j <= i

\* bcache_read of bcache.c, the whole call: it runs with cache_lock held from
\* its first line to its last and waits for nothing else.
B_read(t) ==
    /\ variant = "bcache" /\ pc[t] = "read" /\ cache_lock = NoThread
    /\ LET hit == find_block(cache, arg[t].b)
           c1 == IF hit = 0
                 THEN Append(cache, NewBlock(arg[t].b, "READY",
                                             DiskRead(disk, arg[t].b)))
                 ELSE cache
           e == IF hit = 0 THEN Len(c1) ELSE hit
       IN /\ cache' = c1
          /\ blk' = [blk EXCEPT ![t] = e]
          /\ dreads' = IF hit = 0 THEN [dreads EXCEPT ![arg[t].b] = @ + 1]
                       ELSE dreads
          /\ IF c1[e].state = "READY"
             THEN /\ out' = [out EXCEPT ![t] = c1[e].data]
                  /\ nreads' = nreads + 1
             ELSE UNCHANGED <<out, nreads>>
    /\ pc' = [pc EXCEPT ![t] = "r_ret"]
    /\ UNCHANGED <<prog, cache_lock, disk_lock, disk, nwrites, arg, xfer, calls,
                   lastw, quiet, vis, retR, retW>>

\* bcache_write of bcache.c, the whole call, under cache_lock
B_write(t) ==
    /\ variant = "bcache" /\ pc[t] = "write" /\ cache_lock = NoThread
    /\ LET hit == find_block(cache, arg[t].b)
           c1 == IF hit = 0
                 THEN Append(cache, NewBlock(arg[t].b, "DIRTY", NoData))
                 ELSE cache
           e == IF hit = 0 THEN Len(c1) ELSE hit
       IN /\ cache' = [c1 EXCEPT ![e].data = arg[t].p, ![e].state = "DIRTY"]
          /\ blk' = [blk EXCEPT ![t] = e]
    /\ nwrites' = nwrites + 1
    /\ lastw' = [lastw EXCEPT ![arg[t].b] = arg[t].p]
    /\ pc' = [pc EXCEPT ![t] = "w_ret"]
    /\ UNCHANGED <<prog, cache_lock, disk_lock, disk, nreads, arg, out, xfer,
                   calls, dreads, quiet, vis, retR, retW>>

\* bcache_sync of bcache.c, lines 168-169
B_sync_begin(t) ==
    /\ variant = "bcache" /\ pc[t] = "sync" /\ cache_lock = NoThread
    /\ cache_lock' = t
    /\ blk' = [blk EXCEPT ![t] = ListHead(cache)]
    /\ pc' = [pc EXCEPT ![t] = "s_scan"]
    /\ UNCHANGED <<prog, cache, disk_lock, disk, nreads, nwrites, arg, out, xfer,
                   calls, hist>>

\* bcache_sync of bcache.c, one turn of the loop up to pthread_cond_wait
\* (lines 170-177), or its end (line 179)
B_sync_scan(t) ==
    /\ variant = "bcache" /\ pc[t] = "s_scan"
    /\ IF blk[t] = 0
       THEN /\ cache_lock' = NoThread
            /\ pc' = [pc EXCEPT ![t] = "s_ret"]
            /\ UNCHANGED <<cache, blk>>
       ELSE /\ cache[blk[t]].lock = NoThread
            /\ cache_lock' = cache_lock
            /\ IF cache[blk[t]].state = "DIRTY"
               THEN /\ cache' = [cache EXCEPT ![blk[t]].state = "WRITING"]
                    /\ pc' = [pc EXCEPT ![t] = "s_sleep"]
                    /\ blk' = blk
               ELSE /\ cache' = cache
                    /\ pc' = pc
                    /\ blk' = [blk EXCEPT ![t] = @ - 1]
    /\ UNCHANGED <<prog, disk_lock, disk, nreads, nwrites, arg, out, xfer, calls,
                   hist>>

\* pthread_cond_wait returns in bcache_sync of bcache.c (line 174): the entry's
\* lock is taken again, then lines 176-177
B_sync_woken(t) ==
    /\ variant = "bcache" /\ pc[t] = "s_woken"
    /\ cache[blk[t]].lock = NoThread
    /\ pc' = [pc EXCEPT ![t] = "s_scan"]
    /\ blk' = [blk EXCEPT ![t] = @ - 1]
    /\ UNCHANGED <<prog, cache, cache_lock, disk_lock, disk, nreads, nwrites, arg,
                   out, xfer, calls, hist>>

\* bcache_io_scheduler of bcache.c, lines 191-192
B_sched_begin ==
    /\ variant = "bcache" /\ bc = "bcache"
    /\ pc[Sched] = "sch_idle" /\ cache_lock = NoThread
    /\ cache_lock' = Sched
    /\ blk' = [blk EXCEPT ![Sched] = ListHead(cache)]
    /\ pc' = [pc EXCEPT ![Sched] = "sch_scan"]
    /\ UNCHANGED <<prog, cache, disk_lock, disk, nreads, nwrites, arg, out, xfer,
                   calls, hist>>

\* pthread_cond_signal wakes one of the threads waiting, when there is one.
SignalChoices(e) == IF Sleepers(e) = {} THEN {{}} ELSE {{w} : w \in Sleepers(e)}

\* bcache_io_scheduler of bcache.c, one turn of the inner loop (lines 193-205),
\* or its end (lines 206-207)
B_sched_scan ==
    /\ variant = "bcache" /\ pc[Sched] = "sch_scan"
    /\ IF blk[Sched] = 0
       THEN /\ cache_lock' = NoThread
            /\ pc' = [pc EXCEPT ![Sched] = "sch_idle"]
            /\ UNCHANGED <<cache, blk, disk, dreads>>
       ELSE LET e == blk[Sched]
                b == cache[e].blocknum
            IN /\ cache[e].lock = NoThread
               /\ cache_lock' = cache_lock
               /\ cache' = IF cache[e].state = "READING"
                           THEN [cache EXCEPT ![e].data = DiskRead(disk, b),
                                              ![e].state = "READY"]
                           ELSE IF cache[e].state = "WRITING"
                           THEN [cache EXCEPT ![e].state = "READY"]
                           ELSE cache
               /\ disk' = IF cache[e].state = "WRITING"
                          THEN DiskWrite(disk, b, cache[e].data) ELSE disk
               /\ dreads' = IF cache[e].state = "READING"
                            THEN [dreads EXCEPT ![b] = @ + 1] ELSE dreads
               /\ \E W \in SignalChoices(e) : pc' = Wake(pc, W)
               /\ blk' = [blk EXCEPT ![Sched] = @ - 1]
    /\ UNCHANGED <<prog, disk_lock, nreads, nwrites, arg, out, xfer, calls,
                   lastw, quiet, vis, retR, retW>>

\* ================================================================ src/x.c
\* pthread_mutex_lock(&bc->cache_lock) in x.c, whose bcache_create leaves the
\* mutex as malloc returned it: it works as a mutex ("ok"), never returns
\* ("stuck"), or returns an error at once and excludes nobody ("invalid").
CanLock == \/ lock_kind = "invalid"
           \/ lock_kind = "ok" /\ cache_lock = NoThread
Locked(t) == IF lock_kind = "ok" THEN t ELSE cache_lock
Unlocked == IF lock_kind = "ok" THEN NoThread ELSE cache_lock

\* bcache_read of x.c, lines 118-119
X_read_find(t) ==
    /\ variant = "x" /\ pc[t] = "read" /\ CanLock
    /\ cache_lock' = Locked(t)
    /\ blk' = [blk EXCEPT ![t] = find_block(cache, arg[t].b)]
    /\ pc' = [pc EXCEPT ![t] = "r_ins"]
    /\ UNCHANGED <<prog, cache, disk_lock, disk, nreads, nwrites, arg, out, xfer,
                   calls, hist>>

\* bcache_read of x.c, lines 121-137
X_read_insert(t) ==
    /\ variant = "x" /\ pc[t] = "r_ins"
    /\ IF blk[t] = 0
       THEN /\ cache' = Append(cache, NewBlock(arg[t].b, "READING", NoData))
            /\ blk' = [blk EXCEPT ![t] = Len(cache) + 1]
       ELSE UNCHANGED <<cache, blk>>
    /\ cache_lock' = Unlocked
    /\ pc' = [pc EXCEPT ![t] = "r_lock"]
    /\ UNCHANGED <<prog, disk_lock, disk, nreads, nwrites, arg, out, xfer, calls,
                   hist>>

\* The wait loop of bcache_read of x.c with blk->lock held, lines 152-158
X_read_wait(t, e, c, pcv) ==
    IF c[e].state = "READY"
    THEN /\ \E v \in CopyOut(e) : out' = [out EXCEPT ![t] = v]
         /\ cache' = [c EXCEPT ![e].lock = NoThread]
         /\ pc' = [pcv EXCEPT ![t] = "r_count"]
    ELSE /\ out' = out
         /\ cache' = [c EXCEPT ![e].lock = NoThread]
         /\ pc' = [pcv EXCEPT ![t] = "r_sleep"]

\* bcache_read of x.c, lines 140-141, then the wait loop when the entry is not
\* READING
X_read_check(t) ==
    /\ variant = "x" /\ pc[t] = "r_lock"
    /\ cache[blk[t]].lock = NoThread
    /\ IF cache[blk[t]].state = "READING"
       THEN /\ cache' = [cache EXCEPT ![blk[t]].lock = t]
            /\ pc' = [pc EXCEPT ![t] = "r_disk"]
            /\ out' = out
       ELSE X_read_wait(t, blk[t], cache, pc)
    /\ UNCHANGED <<prog, cache_lock, disk_lock, disk, nreads, nwrites, arg, blk,
                   xfer, calls, hist>>

\* bcache_read of x.c, line 143 and the start of disk_read
X_read_disk_begin(t) ==
    /\ variant = "x" /\ pc[t] = "r_disk" /\ disk_lock = NoThread
    /\ disk_lock' = t
    /\ xfer' = [xfer EXCEPT ![t] = [kind |-> "read", snap |-> NoData, raced |-> FALSE]]
    /\ dreads' = [dreads EXCEPT ![arg[t].b] = @ + 1]
    /\ pc' = [pc EXCEPT ![t] = "r_xfer"]
    /\ UNCHANGED <<prog, cache, cache_lock, disk, nreads, nwrites, arg, blk, out,
                   calls, lastw, quiet, vis, retR, retW>>

\* bcache_read of x.c, the end of disk_read and lines 145-148
X_read_disk_end(t) ==
    /\ variant = "x" /\ pc[t] = "r_xfer"
    /\ \E v \in (IF xfer[t].raced
                 THEN Mix(DiskRead(disk, arg[t].b), cache[blk[t]].data)
                 ELSE {DiskRead(disk, arg[t].b)}) :
          cache' = [cache EXCEPT ![blk[t]].data = v, ![blk[t]].state = "READY"]
    /\ xfer' = [xfer EXCEPT ![t] = NoXfer]
    /\ disk_lock' = NoThread
    /\ pc' = [Wake(pc, Sleepers(blk[t])) EXCEPT ![t] = "r_wait"]
    /\ UNCHANGED <<prog, cache_lock, disk, nreads, nwrites, arg, blk, out, calls,
                   hist>>

\* bcache_read of x.c, the wait loop after the device read (the entry's lock
\* is still held)
X_read_after(t) ==
    /\ variant = "x" /\ pc[t] = "r_wait"
    /\ X_read_wait(t, blk[t], cache, pc)
    /\ UNCHANGED <<prog, cache_lock, disk_lock, disk, nreads, nwrites, arg, blk,
                   xfer, calls, hist>>

\* pthread_cond_wait returns in bcache_read of x.c (line 153)
X_read_woken(t) ==
    /\ variant = "x" /\ pc[t] = "r_woken"
    /\ cache[blk[t]].lock = NoThread
    /\ X_read_wait(t, blk[t], cache, pc)
    /\ UNCHANGED <<prog, cache_lock, disk_lock, disk, nreads, nwrites, arg, blk,
                   xfer, calls, hist>>

\* bcache_read of x.c, line 161
X_read_count(t) ==
    /\ variant = "x" /\ pc[t] = "r_count"
    /\ nreads' = FetchAndAdd(nreads)
    /\ pc' = [pc EXCEPT ![t] = "r_ret"]
    /\ UNCHANGED <<prog, cache, cache_lock, disk_lock, disk, nwrites, arg, blk,
                   out, xfer, calls, hist>>

\* bcache_write of x.c, lines 167-168
X_write_find(t) ==
    /\ variant = "x" /\ pc[t] = "write" /\ CanLock
    /\ cache_lock' = Locked(t)
    /\ blk' = [blk EXCEPT ![t] = find_block(cache, arg[t].b)]
    /\ pc' = [pc EXCEPT ![t] = "w_ins"]
    /\ UNCHANGED <<prog, cache, disk_lock, disk, nreads, nwrites, arg, out, xfer,
                   calls, hist>>

\* bcache_write of x.c, lines 169-187: the entry's own lock is not taken
X_write_store(t) ==
    /\ variant = "x" /\ pc[t] = "w_ins"
    /\ LET c1 == IF blk[t] = 0
                 THEN Append(cache, NewBlock(arg[t].b, "DIRTY", NoData))
                 ELSE cache
           e == IF blk[t] = 0 THEN Len(c1) ELSE blk[t]
       IN /\ cache' = [c1 EXCEPT ![e].data = arg[t].p, ![e].state = "DIRTY"]
          /\ blk' = [blk EXCEPT ![t] = e]
          /\ xfer' = Raced(xfer, e)
    /\ nwrites' = nwrites + 1
    /\ lastw' = [lastw EXCEPT ![arg[t].b] = arg[t].p]
    /\ cache_lock' = Unlocked
    /\ pc' = [pc EXCEPT ![t] = "w_ret"]
    /\ UNCHANGED <<prog, disk_lock, disk, nreads, arg, out, calls, dreads, quiet,
                   vis, retR, retW>>

\* bcache_sync of x.c, lines 197-198
X_sync_begin(t) ==
    /\ variant = "x" /\ pc[t] = "sync" /\ CanLock
    /\ cache_lock' = Locked(t)
    /\ blk' = [blk EXCEPT ![t] = ListHead(cache)]
    /\ pc' = [pc EXCEPT ![t] = "s_scan"]
    /\ UNCHANGED <<prog, cache, disk_lock, disk, nreads, nwrites, arg, out, xfer,
                   calls, hist>>

\* bcache_sync of x.c, one turn of the loop up to pthread_cond_wait (lines
\* 199-206), or its end (line 208)
X_sync_scan(t) ==
    /\ variant = "x" /\ pc[t] = "s_scan"
    /\ IF blk[t] = 0
       THEN /\ cache_lock' = Unlocked
            /\ pc' = [pc EXCEPT ![t] = "s_ret"]
            /\ UNCHANGED <<cache, blk>>
       ELSE /\ cache[blk[t]].lock = NoThread
            /\ cache_lock' = cache_lock
            /\ IF cache[blk[t]].state = "DIRTY"
               THEN /\ cache' = [cache EXCEPT ![blk[t]].state = "WRITING"]
                    /\ pc' = [pc EXCEPT ![t] = "s_sleep"]
                    /\ blk' = blk
               ELSE /\ cache' = cache
                    /\ pc' = pc
                    /\ blk' = [blk EXCEPT ![t] = @ - 1]
    /\ UNCHANGED <<prog, disk_lock, disk, nreads, nwrites, arg, out, xfer, calls,
                   hist>>

\* pthread_cond_wait returns in bcache_sync of x.c (line 203), then lines
\* 205-206
X_sync_woken(t) ==
    /\ variant = "x" /\ pc[t] = "s_woken"
    /\ cache[blk[t]].lock = NoThread
    /\ pc' = [pc EXCEPT ![t] = "s_scan"]
    /\ blk' = [blk EXCEPT ![t] = @ - 1]
    /\ UNCHANGED <<prog, cache, cache_lock, disk_lock, disk, nreads, nwrites, arg,
                   out, xfer, calls, hist>>

\* bcache_io_scheduler of x.c, line 224 and the start of the for loop
X_sched_begin ==
    /\ variant = "x" /\ bc = "bcache"
    /\ pc[Sched] = "sch_idle" /\ CanLock
    /\ cache_lock' = Locked(Sched)
    /\ blk' = [blk EXCEPT ![Sched] = ListHead(cache)]
    /\ pc' = [pc EXCEPT ![Sched] = "sch_scan"]
    /\ UNCHANGED <<prog, cache, disk_lock, disk, nreads, nwrites, arg, out, xfer,
                   calls, hist>>

\* bcache_io_scheduler of x.c, one turn of the for loop up to line 228 (an
\* entry to serve) or through lines 245-247 (none), or the loop's end (line 249)
X_sched_scan ==
    /\ variant = "x" /\ pc[Sched] = "sch_scan"
    /\ IF blk[Sched] = 0
       THEN /\ cache_lock' = Unlocked
            /\ pc' = [pc EXCEPT ![Sched] = "sch_idle"]
            /\ UNCHANGED <<cache, blk>>
       ELSE /\ cache[blk[Sched]].lock = NoThread
            /\ IF cache[blk[Sched]].state \in {"READING", "WRITING"}
               THEN /\ cache' = [cache EXCEPT ![blk[Sched]].lock = Sched]
                    /\ cache_lock' = Unlocked
                    /\ pc' = [pc EXCEPT ![Sched] = "sch_disk"]
                    /\ blk' = blk
               ELSE /\ cache' = cache
                    /\ cache_lock' = cache_lock
                    /\ pc' = pc
                    /\ blk' = [blk EXCEPT ![Sched] = @ - 1]
    /\ UNCHANGED <<prog, disk_lock, disk, nreads, nwrites, arg, out, xfer, calls,
                   hist>>

\* bcache_io_scheduler of x.c, line 230 and the start of the transfer the
\* entry's state then asks for (lines 231-237)
X_sched_disk_begin ==
    /\ variant = "x" /\ pc[Sched] = "sch_disk" /\ disk_lock = NoThread
    /\ disk_lock' = Sched
    /\ LET e == blk[Sched]
           k == IF cache[e].state = "READING" THEN "read"
                ELSE IF cache[e].state = "WRITING" THEN "write" ELSE "skip"
       IN /\ xfer' = [xfer EXCEPT ![Sched] =
                        [kind |-> k, snap |-> cache[e].data, raced |-> FALSE]]
          /\ dreads' = IF k = "read"
                       THEN [dreads EXCEPT ![cache[e].blocknum] = @ + 1]
                       ELSE dreads
    /\ pc' = [pc EXCEPT ![Sched] = "sch_xfer"]
    /\ UNCHANGED <<prog, cache, cache_lock, disk, nreads, nwrites, arg, blk, out,
                   calls, lastw, quiet, vis, retR, retW>>

\* bcache_io_scheduler of x.c, the end of the transfer and lines 233/236,
\* 238-241
X_sched_disk_end ==
    /\ variant = "x" /\ pc[Sched] = "sch_xfer"
    /\ LET e == blk[Sched]
           b == cache[e].blocknum
           k == xfer[Sched].kind
       IN \E v \in (IF k = "read"
                    THEN (IF xfer[Sched].raced
                          THEN Mix(DiskRead(disk, b), cache[e].data)
                          ELSE {DiskRead(disk, b)})
                    ELSE (IF xfer[Sched].raced
                          THEN Mix(xfer[Sched].snap, cache[e].data)
                          ELSE {xfer[Sched].snap})) :
            /\ cache' = [cache EXCEPT
                           ![e].data = IF k = "read" THEN v ELSE @,
                           ![e].state = IF k = "skip" THEN @ ELSE "READY",
                           ![e].lock = NoThread]
            /\ disk' = IF k = "write" THEN DiskWrite(disk, b, v) ELSE disk
    /\ xfer' = [xfer EXCEPT ![Sched] = NoXfer]
    /\ disk_lock' = NoThread
    /\ pc' = [Wake(pc, Sleepers(blk[Sched])) EXCEPT ![Sched] = "sch_relock"]
    /\ UNCHANGED <<prog, cache_lock, nreads, nwrites, arg, blk, out, calls, hist>>

\* bcache_io_scheduler of x.c, lines 243-244 and the loop's step
X_sched_relock ==
    /\ variant = "x" /\ pc[Sched] = "sch_relock" /\ CanLock
    /\ cache_lock' = Locked(Sched)
    /\ blk' = [blk EXCEPT ![Sched] = @ - 1]
    /\ pc' = [pc EXCEPT ![Sched] = "sch_scan"]
    /\ UNCHANGED <<prog, cache, disk_lock, disk, nreads, nwrites, arg, out, xfer,
                   calls, hist>>

\* pthread_cond_wait may return without a signal (POSIX spurious wakeup).
SpuriousWakeup(t) ==
    /\ pc[t] \in SleepPcs
    /\ pc' = [pc EXCEPT ![t] = WokenPc(pc[t])]
    /\ UNCHANGED <<prog, cache, cache_lock, disk_lock, disk, nreads, nwrites, arg,
                   blk, out, xfer, calls, hist>>

\* ------------------------------------------------------------ construction
\* bcache_create: part_000 lines 55-72, bcache.c lines 52-72, x.c lines 54-77.
\* x.c never initialises cache_lock: what locking it does is any of what
\* pthread_mutex_lock does on malloc'ed bytes (works, blocks, fails).
LockKinds(v) == IF v = "x" THEN {"ok", "stuck", "invalid"} ELSE {"ok"}

bcache_create(mb) ==
    /\ bc = "NULL"
    /\ bc' = "bcache"
    /\ memory_blocks' = mb
    /\ nreads' = 0 /\ nwrites' = 0
    /\ cache' = <<>>
    /\ cache_lock' = NoThread /\ disk_lock' = NoThread
    /\ lock_kind' \in LockKinds(variant)
    /\ UNCHANGED <<variant, disk, pc, arg, blk, out, xfer, calls, hist>>

InitCommon ==
    /\ cache = <<>>
    /\ cache_lock = NoThread /\ disk_lock = NoThread
    /\ disk = [b \in Blocks |-> InitialContent]
    /\ nreads = 0 /\ nwrites = 0
    /\ pc = [t \in Threads |-> IF t = Sched THEN "sch_idle" ELSE "idle"]
    /\ arg = [t \in Callers |-> NoArg]
    /\ blk = [t \in Threads |-> 0]
    /\ out = [t \in Callers |-> NoData]
    /\ xfer = [t \in Threads |-> NoXfer]
    /\ lastw = [b \in BlockArgs |-> InitialContent]
    /\ dreads = [b \in BlockArgs |-> 0]
    /\ quiet = [t \in Callers |-> FALSE]
    /\ vis = [t \in Callers |-> <<>>]
    /\ retR = 0 /\ retW = 0

\* part_000 after bcache_create(d, MaxMemoryBlocks) and the start of the
\* scheduler thread
InitP ==
    /\ InitCommon
    /\ variant = "part_000" /\ bc = "bcache" /\ lock_kind = "ok"
    /\ memory_blocks = MaxMemoryBlocks
    /\ calls = MaxCalls

CallsInRange ==
    \E t \in Callers :
        \/ \E b \in Blocks : CallRead(t, b)
        \/ \E b \in Blocks, p \in Payloads : CallWrite(t, b, p)
        \/ CallSync(t)
        \/ Return(t)

StepsP ==
    \/ \E t \in Callers :
        \/ P_read_lookup(t) \/ P_read_check(t) \/ P_read_disk_begin(t)
        \/ P_read_disk_end(t) \/ P_read_ready(t) \/ P_read_woken(t)
        \/ P_read_count(t)
        \/ P_write_lookup(t) \/ P_write_store(t) \/ P_write_count(t)
        \/ P_sync_begin(t) \/ P_sync_scan(t) \/ P_sync_disk_begin(t)
        \/ P_sync_disk_end(t) \/ P_sync_ready(t)
        \/ SpuriousWakeup(t)
    \/ P_sched_begin \/ P_sched_scan \/ P_sched_disk_begin \/ P_sched_disk_end
    \/ P_sched_ready

NextP == CallsInRange \/ StepsP

SpecP == InitP /\ [][NextP]_vars

\* part_000 with every thread weakly fair: a thread whose next step stays
\* possible takes it. pthread_mutex_lock promises no more: a mutex is not
\* handed to the threads waiting for it in any order.
SchedP ==
    \/ P_sched_begin \/ P_sched_scan \/ P_sched_disk_begin \/ P_sched_disk_end
    \/ P_sched_ready

CallerStepP(t) ==
    \/ P_read_lookup(t) \/ P_read_check(t) \/ P_read_disk_begin(t)
    \/ P_read_disk_end(t) \/ P_read_ready(t) \/ P_read_woken(t)
    \/ P_read_count(t)
    \/ P_write_lookup(t) \/ P_write_store(t) \/ P_write_count(t)
    \/ P_sync_begin(t) \/ P_sync_scan(t) \/ P_sync_disk_begin(t)
    \/ P_sync_disk_end(t) \/ P_sync_ready(t)
    \/ Return(t)

FairSpecP ==
    /\ InitP /\ [][NextP]_vars
    /\ WF_vars(SchedP)
    /\ \A t \in Callers : WF_vars(CallerStepP(t))

\* bcache.c after bcache_create(d, MaxMemoryBlocks) and the start of the
\* scheduler thread
InitB ==
    /\ InitCommon
    /\ variant = "bcache" /\ bc = "bcache" /\ lock_kind = "ok"
    /\ memory_blocks = MaxMemoryBlocks
    /\ calls = MaxCalls

SchedB == B_sched_begin \/ B_sched_scan

StepsB ==
    \/ \E t \in Callers : B_read(t) \/ B_write(t)
    \/ SchedB

SyncB ==
    \E t \in Callers :
        \/ B_sync_begin(t) \/ B_sync_scan(t) \/ B_sync_woken(t)
        \/ SpuriousWakeup(t)

NextB == CallsInRange \/ StepsB \/ SyncB

SpecB == InitB /\ [][NextB]_vars

\* bcache.c with callers that read and write and never call bcache_sync. The
\* scheduler thread always gets its turn, and a call that finds cache_lock free
\* again and again gets it (the scheduler sleeps 10 ms between two passes).
CallsNoSync ==
    \E t \in Callers :
        \/ \E b \in Blocks : CallRead(t, b)
        \/ \E b \in Blocks, p \in Payloads : CallWrite(t, b, p)
        \/ Return(t)

NextBNoSync == CallsNoSync \/ StepsB

FairSpecB ==
    /\ InitB /\ [][NextBNoSync]_vars
    /\ WF_vars(SchedB)
    /\ \A t \in Callers : SF_vars(B_read(t) \/ B_write(t) \/ Return(t))

\* bcache.c with every call, bcache_sync included: the scheduler thread always
\* gets its turn and a call that can go on again and again does go on.
\* pthread_cond_wait is not promised to return without a signal, so
\* SpuriousWakeup is under no fairness.
CallerStepB(t) ==
    \/ B_read(t) \/ B_write(t)
    \/ B_sync_begin(t) \/ B_sync_scan(t) \/ B_sync_woken(t)
    \/ Return(t)

FairSpecBSync ==
    /\ InitB /\ [][NextB]_vars
    /\ WF_vars(SchedB)
    /\ \A t \in Callers : SF_vars(CallerStepB(t))

\* x.c after bcache_create(d, MaxMemoryBlocks) and the start of the scheduler
\* thread
InitX ==
    /\ InitCommon
    /\ variant = "x" /\ bc = "bcache" /\ lock_kind \in LockKinds("x")
    /\ memory_blocks = MaxMemoryBlocks
    /\ calls = MaxCalls

StepsX ==
    \/ \E t \in Callers :
        \/ X_read_find(t) \/ X_read_insert(t) \/ X_read_check(t)
        \/ X_read_disk_begin(t) \/ X_read_disk_end(t) \/ X_read_after(t)
        \/ X_read_woken(t) \/ X_read_count(t)
        \/ X_write_find(t) \/ X_write_store(t)
        \/ X_sync_begin(t) \/ X_sync_scan(t) \/ X_sync_woken(t)
        \/ SpuriousWakeup(t)
    \/ X_sched_begin \/ X_sched_scan \/ X_sched_disk_begin \/ X_sched_disk_end
    \/ X_sched_relock

NextX == CallsInRange \/ StepsX

SpecX == InitX /\ [][NextX]_vars

\* Every version, from before bcache_create, with callers that may also pass
\* the first block number past the end of the device.
Init ==
    /\ InitCommon
    /\ variant \in Variants /\ bc = "NULL" /\ lock_kind = "ok"
    /\ memory_blocks = 0
    /\ calls = MaxCallsAll

Create == \E mb \in 0..MaxMemoryBlocks : bcache_create(mb)

CallsOutOfRange ==
    \E t \in Callers :
        \/ CallRead(t, disk_nblocks)
        \/ \E p \in Payloads : CallWrite(t, disk_nblocks, p)

Next ==
    \/ Create \/ CallsInRange \/ CallsOutOfRange
    \/ StepsP \/ StepsB \/ SyncB \/ StepsX

Spec == Init /\ [][Next]_vars

\* ================================================================== claims
InRead(t) == pc[t] \in {"read", "r_ins", "r_lock", "r_disk", "r_xfer", "r_relock",
                        "r_wait", "r_sleep", "r_woken", "r_count", "r_ret"}
States(S) == \E i \in 1..Len(cache) : cache[i].state \in S

\* C1 (part_000): a read that follows the caller's own completed write(b, p),
\* with no other write to b in between, returns p.
C1_ReadYourWrite ==
    \A t \in Callers :
        (pc[t] = "r_ret" /\ vis[t] # <<>> /\ vis[t][1] = arg[t].b)
            => out[t] = vis[t][2]

\* C2 (part_000): when bcache_sync returns and every write had completed
\* before it began, the device holds the last payload written to each block.
C2_SyncPersistsLastWrite ==
    \A t \in Callers :
        (pc[t] = "s_ret" /\ quiet[t]) => \A b \in Blocks : disk[b] = lastw[b]

\* C3 (part_000): when bcache_sync returns and every write had completed
\* before it began, no entry of the list is DIRTY or WRITING.
C3_SyncLeavesNoDirty ==
    \A t \in Callers :
        (pc[t] = "s_ret" /\ quiet[t]) => ~States({"DIRTY", "WRITING"})

C3_Witness ==
    \E t \in Callers :
        /\ pc[t] = "s_ret" /\ quiet[t]
        /\ \E u \in Callers : InRead(u) /\ pc[u] # "r_ret"
        /\ \E i \in 1..Len(cache) :
              cache[i].state = "READY" /\ lastw[cache[i].blocknum] # InitialContent

\* C5 (part_000): for a block no write has stored to, at most one disk_read
\* is ever issued, and every read of it that has copied its result saw exactly
\* one disk_read and delivers the device's content.
C5_OneDeviceRead ==
    \A b \in Blocks :
        lastw[b] = InitialContent =>
            /\ dreads[b] <= 1
            /\ \A t \in Callers :
                  (pc[t] = "r_ret" /\ arg[t].b = b)
                      => (dreads[b] = 1 /\ out[t] = disk[b])

C5_Witness ==
    \E b \in Blocks :
        /\ lastw[b] = InitialContent /\ dreads[b] = 1
        /\ \A t \in Callers : pc[t] = "r_ret" /\ arg[t].b = b

\* C6 (part_000): with no call in progress nreads and nwrites equal the
\* numbers of bcache_read and bcache_write calls that returned, and neither
\* counter ever decreases.
C6_CountersExact ==
    /\ []((\A t \in Callers : ~InRead(t) /\ ~InWrite(t))
             => (nreads = retR /\ nwrites = retW))
    /\ [][nreads' >= nreads /\ nwrites' >= nwrites]_vars

C6_Witness ==
    /\ \A t \in Callers : pc[t] = "idle"
    /\ nreads >= 2 /\ nwrites >= 1

\* C4 (every version): the list never holds more entries than memory_blocks
\* (stated for a capacity of at least 1 and counting only entries of blocks
\* the device has).
C4_ResidentWithinCapacity ==
    (bc = "bcache" /\ memory_blocks >= 1)
        => Cardinality({i \in 1..Len(cache) : cache[i].blocknum \in Blocks})
               <= memory_blocks

\* C7 (bcache.c): once write(b, p) has stored p and no later write to b
\* follows, the device eventually holds p for b with no call of bcache_sync.
C7_WriteBackEventually ==
    \A b \in Blocks, p \in Payloads :
        (lastw[b] = p) ~> (disk[b] = p \/ lastw[b] # p)

\* C8 (every version): no step of a bcache_read or bcache_write call whose
\* block number is >= disk_nblocks changes the list, the device, the counters
\* or issues a device read.
C8_OutOfRangeRejected ==
    [][\A t \in Callers :
          (/\ arg[t].b >= disk_nblocks
           /\ pc[t] \notin (SleepPcs \cup {"idle"})
           /\ pc'[t] # pc[t])
              => UNCHANGED <<cache, disk, nreads, nwrites, dreads>>]_vars

\* C9 (every version): bcache_create with memory_blocks < 1 yields no cache.
C9_CreateRejectsZeroCapacity ==
    bc = "bcache" => memory_blocks >= 1

\* C10 (every version): an entry that is DIRTY, READING or WRITING is still
\* in the list, for the same block, after every step.
C10_BusyEntryStaysResident ==
    [][\A i \in 1..Len(cache) :
          cache[i].state \in {"DIRTY", "READING", "WRITING"}
              => (i <= Len(cache') /\ cache'[i].blocknum = cache[i].blocknum)]_vars

C10_Witness ==
    /\ bc = "bcache" /\ memory_blocks >= 1
    /\ Len(cache) > memory_blocks
    /\ cache[1].state \in {"DIRTY", "READING", "WRITING"}
    /\ cache[1].blocknum \in Blocks /\ cache[2].blocknum \in Blocks

\* The positions at which a thread of part_000 has finished a disk_write and
\* is about to set the entry's state (lines 150-151, 177-178).
WriteBackDone(t) == pc[t] \in {"s_relock", "sch_relock"}

\* C11 (part_000): when a write-back of an entry finishes and a completed
\* bcache_write has meanwhile left the entry DIRTY with a payload the device
\* does not hold, the entry is still DIRTY after the step that ends the
\* write-back (it does not become READY with that payload unpersisted).
C11_RedirtiedStaysDirty ==
    [][\A t \in Threads :
          (/\ WriteBackDone(t) /\ pc'[t] # pc[t]
           /\ cache[blk[t]].state = "DIRTY"
           /\ disk[cache[blk[t]].blocknum] # cache[blk[t]].data
           /\ \A u \in Callers : ~(InWrite(u) /\ arg[u].b = cache[blk[t]].blocknum))
              => cache'[blk[t]].state = "DIRTY"]_vars

\* C12 (part_000): the step of bcache_write that stores the payload leaves an
\* entry that is READING as it was, state and payload.
C12_WriteWaitsForRead ==
    [][\A t \in Callers :
          (/\ pc[t] = "w_lock" /\ pc'[t] # pc[t]
           /\ cache[blk[t]].state = "READING")
              => cache'[blk[t]] = cache[blk[t]]]_vars

\* C13 (part_000): every change of an entry's state is one of FREE->READING,
\* READING->READY, FREE->DIRTY, READY->DIRTY, DIRTY->WRITING, WRITING->READY.
C13_OnlyListedTransitions ==
    [][\A i \in 1..Len(cache) :
          cache'[i].state # cache[i].state
              => <<cache[i].state, cache'[i].state>> \in
                    {<<"FREE", "READING">>, <<"READING", "READY">>,
                     <<"FREE", "DIRTY">>, <<"READY", "DIRTY">>,
                     <<"DIRTY", "WRITING">>, <<"WRITING", "READY">>}]_vars

\* C14 (part_000): no caller of bcache_read, bcache_write or bcache_sync has a
\* device transfer in flight; only the scheduler thread issues them.
C14_OnlySchedulerTransfers ==
    \A t \in Callers : xfer[t].kind = "none" /\ disk_lock # t

\* C15 (part_000): no thread holds cache_lock together with disk_lock, or
\* while its device transfer is in flight.
C15_CacheLockNotAcrossTransfer ==
    \A t \in Threads :
        cache_lock = t => (disk_lock # t /\ xfer[t].kind = "none")

\* C16 (bcache.c): with the scheduler thread fairly scheduled, every
\* bcache_sync call eventually returns.
C16_SyncReturns ==
    \A t \in Callers : (pc[t] = "sync") ~> (pc[t] = "s_ret")

\* C17 (bcache.c, x.c): no thread is in pthread_cond_wait on an entry's
\* condition while it holds cache_lock.
C17_NoWaitHoldingCacheLock ==
    variant \in {"bcache", "x"}
        => \A t \in Threads : pc[t] \in SleepPcs => cache_lock # t

\* C18 (bcache.c): the step by which bcache_read finishes has copied the
\* payload of the block's entry, that entry being READY, into the caller's
\* buffer and has added exactly one to nreads.
C18_ReadCopiesReadyPayload ==
    [][\A t \in Callers :
          (variant = "bcache" /\ pc[t] = "read" /\ pc'[t] = "r_ret")
              => /\ cache'[blk'[t]].state = "READY"
                 /\ out'[t] = cache'[blk'[t]].data
                 /\ nreads' = nreads + 1]_vars

\* C19 (x.c): while a thread holds an entry's lock, only that thread's steps
\* change the entry's state or payload.
C19_ChangesUnderEntryLock ==
    [][\A i \in 1..Len(cache) :
          (/\ variant = "x" /\ cache[i].lock # NoThread
           /\ (cache'[i].state # cache[i].state \/ cache'[i].data # cache[i].data))
              => pc'[cache[i].lock] # pc[cache[i].lock]]_vars

\* C20 (every version): the list holds at most one entry per block number.
C20_OneEntryPerBlock ==
    \A i, j \in 1..Len(cache) :
        i # j => cache[i].blocknum # cache[j].blocknum

C22_ReadyIsClean ==
    \A i \in 1..Len(cache) :
        cache[i].state = "READY"
            => cache[i].data = DiskRead(disk, cache[i].blocknum)

\* C23 (part_000): at most one device transfer is in flight, the thread
\* making it holds disk_lock, and the holder of disk_lock holds no entry's
\* lock.
C23_OneTransferAtATime ==
    /\ Cardinality({t \in Threads : xfer[t].kind # "none"}) <= 1
    /\ \A t \in Threads : xfer[t].kind # "none" => disk_lock = t
    /\ \A t \in Threads :
          disk_lock = t => \A i \in 1..Len(cache) : cache[i].lock # t

C23_Witness ==
    \E t \in Threads, u \in Threads :
        /\ t # u
        /\ xfer[t].kind # "none" /\ disk_lock = t
        /\ pc[u] \in {"r_disk", "s_disk", "sch_disk"}

====
